---- MODULE Spec2Model ----
(***************************************************************************)
(* Model of the AccountingApp record controller: the in-memory record and  *)
(* category lists, the monthly budget, the JSON files of the storage       *)
(* service and the wall-clock date the controller reads.                   *)
(*                                                                         *)
(* Amounts are Python floats in the source; the model uses integers, so    *)
(* sums and differences are exact.  Dates are records year/month/day, a    *)
(* date string "YYYY-MM-DD" is the tuple <<Y, M, D>> of its three numbers. *)
(***************************************************************************)
EXTENDS Integers, Sequences, FiniteSets, TLC

VARIABLES
    records,         \* RecordController.records
    categories,      \* RecordController.categories
    budget,          \* RecordController.budget (attributes of the Budget object)
    today,           \* what date.today() returns
    recordsFile,     \* records.json
    categoriesFile,  \* categories.json
    budgetFile,      \* budget.json
    raised,          \* the exception that escaped the last call, "" if none
    lastCreatedId,   \* the id of the record the last create_record of the
                     \* session returned, 0 before the first
    history,         \* SearchEngine.history
    result,          \* what the last statistics or search call returned
    componentRecords,\* the list object that Statistics.records and
                     \* SearchEngine.records refer to
    returned         \* the list object that the last get_records or
                     \* get_search_history handed to its caller

vars == <<records, categories, budget, today, recordsFile, categoriesFile,
          budgetFile, raised, lastCreatedId, history, result, componentRecords,
          returned>>

(***************************************************************************)
(* Bounds of the model.                                                    *)
(***************************************************************************)
MaxRecords == 2
MaxCategories == 1
MaxStoreRecords == 1
MaxSpending == 8
MaxExpenseRecords == 3
MaxMonthsAhead == 1
MaxStatRecords == 2
MaxSearchRecords == 2
MaxHistory == 1
MaxEntries == 2

(***************************************************************************)
(* Input domains.                                                          *)
(***************************************************************************)
Amounts == {3, 5}
Kinds == {"income", "expense"}
CategoryNames == {"food"}
Notes == {""}
Stores == {""}
GoalValues == {-10, 0, 10}
GoalInputs == {10, 20}
RenamedTo == {"Rent"}

MkDate(y, m, d) == [year |-> y, month |-> m, day |-> d]

StartDay == MkDate(2025, 12, 23)
Dates == {MkDate(2025, 11, 30), MkDate(2025, 12, 2)}

\* "2025-12-02" parses, "2025-99-99" and "2025-02-30" do not
DateStrings == {<<2025, 12, 2>>, <<2025, 99, 99>>, <<2025, 2, 30>>}

(***************************************************************************)
(* Dates: strftime and strptime.                                           *)
(***************************************************************************)
\* d.strftime("%Y-%m")
YearMonth(d) == <<d.year, d.month>>

\* d.strftime("%Y-%m-%d")
FormatDate(d) == <<d.year, d.month, d.day>>

IsLeap(y) == (y % 4 = 0 /\ y % 100 # 0) \/ y % 400 = 0

DaysInMonth(y, m) ==
    IF m = 2 THEN (IF IsLeap(y) THEN 29 ELSE 28)
    ELSE IF m \in {4, 6, 9, 11} THEN 30 ELSE 31

\* datetime.strptime(s, "%Y-%m-%d") raises ValueError unless this holds
ParsesAsDate(s) ==
    /\ s[2] \in 1..12
    /\ s[3] \in 1..DaysInMonth(s[1], s[2])

\* Record.parse_date, defined where ParsesAsDate holds
parse_date(s) == MkDate(s[1], s[2], s[3])

(***************************************************************************)
(* Record and Budget values and their dictionaries.                        *)
(***************************************************************************)
Record(id, amount, r_type, category, note, record_date, store) ==
    [record_id |-> id, amount |-> amount, r_type |-> r_type,
     category |-> category, note |-> note, record_date |-> record_date,
     store |-> store]

RecordToDict(r) == [r EXCEPT !.record_date = FormatDate(r.record_date)]

RecordFromDict(d) == [d EXCEPT !.record_date = parse_date(d.record_date)]

\* Budget(monthly_goal=g): the dataclass has the two fields below and no other
Budget(g) == [monthly_goal |-> g, current_spending |-> 0]

BudgetToDict(b) ==
    [monthly_goal |-> b.monthly_goal, current_spending |-> b.current_spending]

BudgetFromDict(d) ==
    [monthly_goal |-> d.monthly_goal, current_spending |-> d.current_spending]

MapSeq(s, Op(_)) == [i \in 1..Len(s) |-> Op(s[i])]

\* max that returns its second argument: no floor
MaxSecond(a, b) == b

Max(a, b) == IF a >= b THEN a ELSE b

SetMax(S) == CHOOSE x \in S : \A y \in S : y <= x

RemoveAt(s, i) == SubSeq(s, 1, i - 1) \o SubSeq(s, i + 1, Len(s))

(***************************************************************************)
(* The storage service: a file is absent or holds the last saved value.    *)
(***************************************************************************)
NoFile == [exists |-> FALSE, data |-> <<>>]

save_records(rs) == [exists |-> TRUE, data |-> MapSeq(rs, RecordToDict)]

load_records(f) == IF f.exists THEN MapSeq(f.data, RecordFromDict) ELSE <<>>

save_categories(cs) == [exists |-> TRUE, data |-> cs]

load_categories(f) == IF f.exists THEN f.data ELSE <<>>

save_budget(b) == [exists |-> TRUE, data |-> BudgetToDict(b)]

\* No budget.json: data is never read
NoBudgetFile == [exists |-> FALSE, data |-> BudgetToDict(Budget(0))]

load_budget(f) == IF f.exists THEN <<BudgetFromDict(f.data)>> ELSE <<>>

\* budget or storage.load_budget() or Budget(monthly_goal=0.0); injected is
\* <<>> for None.  A Budget object is always truthy
InitialBudget(injected, f) ==
    IF injected # <<>> THEN injected[1]
    ELSE IF load_budget(f) # <<>> THEN load_budget(f)[1]
    ELSE Budget(0)

\* What may be passed as budget: None, <<>> here, or a Budget(monthly_goal=g)
InjectedBudgets == {<<>>} \cup {<<Budget(g)>> : g \in GoalValues}

\* No statistics or search call has returned yet
NoResult == [op |-> "", value |-> <<>>]

(***************************************************************************)
(* List objects.  A variable that holds a list holds a reference: to the   *)
(* list of the record controller, to the history of the search engine, or  *)
(* to a list object of its own, whose items the model keeps with it.       *)
(***************************************************************************)
RecordsList == [ref |-> "records", items |-> <<>>]
HistoryList == [ref |-> "history", items |-> <<>>]
NoList == [ref |-> "none", items |-> <<>>]

\* the items of the list object
ItemsOf(l) ==
    CASE l.ref = "records" -> records
      [] l.ref = "history" -> history
      [] OTHER             -> l.items

\* list(l) in the source: a new list object with the items of l
list_copy(l) == [ref |-> "own", items |-> ItemsOf(l)]

\* a constructor that keeps a copy of the list it is given
Statistics_init_copying(given) == list_copy(given)

\* Statistics.__init__ and SearchEngine.__init__: self.records = records
Statistics_init(given) == given

(***************************************************************************)
(* Construction: RecordController(storage, budget) over an empty data      *)
(* directory, with an injected Budget(monthly_goal=g) or none.             *)
(***************************************************************************)
Init ==
    /\ records = <<>>
    /\ categories = <<>>
    /\ \E injected \in InjectedBudgets :
            budget = InitialBudget(injected, NoBudgetFile)
    /\ today = StartDay
    /\ recordsFile = NoFile
    /\ categoriesFile = NoFile
    /\ budgetFile = NoBudgetFile
    /\ raised = ""
    /\ lastCreatedId = 0
    /\ history = <<>>
    /\ result = NoResult
    /\ componentRecords = Statistics_init(RecordsList)
    /\ returned = NoList

(***************************************************************************)
(* Record operations.                                                      *)
(***************************************************************************)
\* the next id taken from the length of the list
_get_next_record_id_by_count == Len(records) + 1

_get_next_record_id ==
    IF records = <<>> THEN 1
    ELSE SetMax({records[i].record_id : i \in 1..Len(records)}) + 1

\* add_spending assigning the amount where it adds it
add_spending_assigning(b, amount) == [b EXCEPT !.current_spending = amount]

add_spending(b, amount) ==
    [b EXCEPT !.current_spending = b.current_spending + amount]

\* the test of create_record without the comparison of the months
CountsForBudgetAnyMonth(r_type, record_date) == r_type = "expense"

CountsForBudget(r_type, record_date) ==
    r_type = "expense" /\ YearMonth(record_date) = YearMonth(today)

create_record(amount, r_type, category, record_date, note, store) ==
    LET new_id == _get_next_record_id
        record == Record(new_id, amount, r_type, category, note, record_date, store)
        newRecords == Append(records, record)
    IN  /\ raised = ""
        /\ records' = newRecords
        /\ recordsFile' = save_records(newRecords)
        /\ IF CountsForBudget(r_type, record_date)
           THEN /\ budget' = add_spending(budget, amount)
                /\ budgetFile' = save_budget(budget')
           ELSE UNCHANGED <<budget, budgetFile>>
        /\ lastCreatedId' = record.record_id
        /\ UNCHANGED <<categories, today, categoriesFile, raised, history, result,
                       componentRecords, returned>>

\* create_record while the list, the ids (at most maxRecords) and the spending
\* stay within the bounds
CreateWithin(maxRecords) ==
    /\ Len(records) < maxRecords
    /\ _get_next_record_id <= maxRecords
    /\ \E amount \in Amounts, r_type \in Kinds, category \in CategoryNames,
          record_date \in Dates, note \in Notes, store \in Stores :
            /\ CountsForBudget(r_type, record_date)
                  => budget.current_spending + amount <= MaxSpending
            /\ create_record(amount, r_type, category, record_date, note, store)

CreateRecord == CreateWithin(MaxRecords)

(***************************************************************************)
(* update_record(record_id, **kwargs).  kwargs is an ordered mapping: a    *)
(* sequence of items with distinct keys.  is_str is isinstance(value, str) *)
(* of a record_date value: a date string, or a date object.                *)
(***************************************************************************)
\* An item carries its value in the slot of the value's type
NumItem(k, n) == [key |-> k, is_str |-> FALSE, num |-> n, text |-> "",
                  date |-> MkDate(0, 0, 0), datestr |-> <<0, 0, 0>>]
TextItem(k, t) == [key |-> k, is_str |-> TRUE, num |-> 0, text |-> t,
                   date |-> MkDate(0, 0, 0), datestr |-> <<0, 0, 0>>]
DateItem(k, d) == [key |-> k, is_str |-> FALSE, num |-> 0, text |-> "",
                   date |-> d, datestr |-> <<0, 0, 0>>]
DateStrItem(k, s) == [key |-> k, is_str |-> TRUE, num |-> 0, text |-> "",
                      date |-> MkDate(0, 0, 0), datestr |-> s]

RecordFields ==
    {"record_id", "amount", "r_type", "category", "note", "record_date", "store"}

KwargItems ==
    {NumItem("amount", a) : a \in Amounts}
    \cup {TextItem("r_type", t) : t \in Kinds}
    \cup {DateItem("record_date", d) : d \in Dates}
    \cup {DateStrItem("record_date", s) : s \in DateStrings}
    \cup {NumItem("bogus", 1)}

\* No field, one field, or the amount 5 and a date string in either order.
\* record_id is never a key: it is the name of the positional parameter of
\* update_record, and a call passing it as a keyword raises TypeError before
\* the body runs
KwargsInputs ==
    {<<>>}
    \cup {<<a>> : a \in KwargItems}
    \cup {<<NumItem("amount", 5), DateStrItem("record_date", s)>> : s \in DateStrings}
    \cup {<<DateStrItem("record_date", s), NumItem("amount", 5)>> : s \in DateStrings}

\* the loop taking the first record whatever its id
IndexOfFirstRecord(rs, record_id) == IF rs # <<>> THEN 1 ELSE 0

\* The loop of get_record and of delete_record: the index of the first record with the id, 0 if none
IndexOfRecord(rs, record_id) ==
    IF \E i \in 1..Len(rs) : rs[i].record_id = record_id
    THEN CHOOSE i \in 1..Len(rs) :
            /\ rs[i].record_id = record_id
            /\ \A j \in 1..(i - 1) : rs[j].record_id # record_id
    ELSE 0

\* setattr(record, key, value)
SetAttr(rec, key, value) ==
    CASE key = "record_id"   -> [rec EXCEPT !.record_id = value]
      [] key = "amount"      -> [rec EXCEPT !.amount = value]
      [] key = "r_type"      -> [rec EXCEPT !.r_type = value]
      [] key = "category"    -> [rec EXCEPT !.category = value]
      [] key = "note"        -> [rec EXCEPT !.note = value]
      [] key = "record_date" -> [rec EXCEPT !.record_date = value]
      [] key = "store"       -> [rec EXCEPT !.store = value]

\* The value an item hands to setattr, a parsed record_date string apart
ItemValue(it) ==
    CASE it.key \in {"record_id", "amount"}                 -> it.num
      [] it.key \in {"r_type", "category", "note", "store"} -> it.text
      [] it.key = "record_date"                              -> it.date

\* The for loop of update_record over kwargs.items(): the record as the loop
\* leaves it, and whether the loop ran to its end (FALSE: return False inside)
RECURSIVE ApplyKwargs(_, _)
ApplyKwargs(rec, kwargs) ==
    IF kwargs = <<>> THEN [rec |-> rec, done |-> TRUE]
    ELSE LET it == Head(kwargs) IN
         IF it.key \notin RecordFields THEN ApplyKwargs(rec, Tail(kwargs))
         ELSE IF it.key = "record_date" /\ it.is_str
              THEN IF ParsesAsDate(it.datestr)
                   THEN ApplyKwargs(SetAttr(rec, it.key, parse_date(it.datestr)),
                                    Tail(kwargs))
                   ELSE [rec |-> rec, done |-> FALSE]
              ELSE ApplyKwargs(SetAttr(rec, it.key, ItemValue(it)), Tail(kwargs))

\* What update_record returns
update_returns(record_id, kwargs) ==
    LET i == IndexOfRecord(records, record_id) IN
    IF i = 0 THEN FALSE ELSE ApplyKwargs(records[i], kwargs).done

\* update_record that adds the change of the amount to current_spending
update_record_adjusting(record_id, kwargs) ==
    LET i == IndexOfRecord(records, record_id) IN
    /\ raised = ""
    /\ IF i = 0
       THEN UNCHANGED vars
       ELSE LET res == ApplyKwargs(records[i], kwargs)
                newRecords == [records EXCEPT ![i] = res.rec]
            IN  /\ records' = newRecords
                /\ IF res.done
                   THEN recordsFile' = save_records(newRecords)
                   ELSE UNCHANGED recordsFile
                /\ budget' = add_spending(budget, res.rec.amount - records[i].amount)
                /\ UNCHANGED <<categories, today, categoriesFile, budgetFile, raised,
                               lastCreatedId, history, result,
                               componentRecords, returned>>

\* self.records as update_record leaves it: the record of the id after
\* the loop over the keyword arguments, the list otherwise as it was
updated_records(rs, record_id, kwargs) ==
    LET i == IndexOfRecord(rs, record_id) IN
    IF i = 0 THEN rs ELSE [rs EXCEPT ![i] = ApplyKwargs(rs[i], kwargs).rec]

update_record(record_id, kwargs) ==
    LET i == IndexOfRecord(records, record_id) IN
    /\ raised = ""
    /\ IF i = 0
       THEN UNCHANGED vars
       ELSE LET res == ApplyKwargs(records[i], kwargs)
                newRecords == updated_records(records, record_id, kwargs)
            IN  /\ records' = newRecords
                /\ IF res.done
                   THEN recordsFile' = save_records(newRecords)
                   ELSE UNCHANGED recordsFile
                /\ UNCHANGED <<categories, budget, today, categoriesFile,
                               budgetFile, raised, lastCreatedId, history, result,
                               componentRecords, returned>>

\* What delete_record returns
delete_returns(record_id) == IndexOfRecord(records, record_id) # 0

\* self.records as delete_record leaves it: del self.records[i] at the
\* first record of the id
records_after_delete(rs, record_id) ==
    LET i == IndexOfRecord(rs, record_id) IN
    IF i = 0 THEN rs ELSE RemoveAt(rs, i)

\* self.budget as delete_record leaves it: an expense is subtracted, and
\* the difference floored at 0.0
budget_after_delete(rs, b, record_id) ==
    LET i == IndexOfRecord(rs, record_id) IN
    IF i # 0 /\ rs[i].r_type = "expense"
    THEN [b EXCEPT !.current_spending = Max(0, b.current_spending - rs[i].amount)]
    ELSE b

delete_record(record_id) ==
    LET i == IndexOfRecord(records, record_id) IN
    /\ raised = ""
    /\ IF i = 0
       THEN UNCHANGED vars
       ELSE LET rec == records[i]
                newRecords == records_after_delete(records, record_id)
            IN  /\ IF rec.r_type = "expense"
                   THEN /\ budget' = budget_after_delete(records, budget, record_id)
                        /\ budgetFile' = save_budget(budget')
                   ELSE UNCHANGED <<budget, budgetFile>>
                /\ records' = newRecords
                /\ recordsFile' = save_records(newRecords)
                /\ UNCHANGED <<categories, today, categoriesFile, raised,
                               lastCreatedId, history, result,
                               componentRecords, returned>>

\* get_record returns None, <<>> here, or the record, <<record>> here
get_record(record_id) ==
    LET i == IndexOfRecord(records, record_id) IN
    IF i = 0 THEN <<>> ELSE <<records[i]>>

\* ids a caller may pass: every id a record can carry, and one no record carries
Ids == 1..(MaxRecords + 1)

UpdateRecord == \E record_id \in Ids, kwargs \in KwargsInputs :
                    update_record(record_id, kwargs)

DeleteRecord == \E record_id \in Ids : delete_record(record_id)

(***************************************************************************)
(* Category operations.                                                    *)
(***************************************************************************)
Category(id, name, icon, c_type) ==
    [category_id |-> id, name |-> name, icon |-> icon, c_type |-> c_type]

CategoryFields == {"category_id", "name", "icon", "c_type"}

_get_next_category_id ==
    IF categories = <<>> THEN 1
    ELSE SetMax({categories[i].category_id : i \in 1..Len(categories)}) + 1

add_category(name, icon, c_type) ==
    LET new_id == _get_next_category_id
        newCategories == Append(categories, Category(new_id, name, icon, c_type))
    IN  /\ raised = ""
        /\ Len(categories) < MaxCategories
        /\ new_id <= MaxCategories
        /\ categories' = newCategories
        /\ categoriesFile' = save_categories(newCategories)
        /\ UNCHANGED <<records, budget, today, recordsFile, budgetFile, raised,
                       lastCreatedId, history, result,
                       componentRecords, returned>>

IndexOfCategory(cs, category_id) ==
    IF \E i \in 1..Len(cs) : cs[i].category_id = category_id
    THEN CHOOSE i \in 1..Len(cs) :
            /\ cs[i].category_id = category_id
            /\ \A j \in 1..(i - 1) : cs[j].category_id # category_id
    ELSE 0

SetCategoryAttr(cat, key, value) ==
    CASE key = "category_id" -> [cat EXCEPT !.category_id = value]
      [] key = "name"        -> [cat EXCEPT !.name = value]
      [] key = "icon"        -> [cat EXCEPT !.icon = value]
      [] key = "c_type"      -> [cat EXCEPT !.c_type = value]

CategoryItemValue(it) == IF it.key = "category_id" THEN it.num ELSE it.text

RECURSIVE ApplyCategoryKwargs(_, _)
ApplyCategoryKwargs(cat, kwargs) ==
    IF kwargs = <<>> THEN cat
    ELSE LET it == Head(kwargs) IN
         IF it.key \in CategoryFields
         THEN ApplyCategoryKwargs(SetCategoryAttr(cat, it.key, CategoryItemValue(it)),
                                  Tail(kwargs))
         ELSE ApplyCategoryKwargs(cat, Tail(kwargs))

edit_category_returns(category_id) == IndexOfCategory(categories, category_id) # 0

edit_category(category_id, kwargs) ==
    LET i == IndexOfCategory(categories, category_id) IN
    /\ raised = ""
    /\ IF i = 0
       THEN UNCHANGED vars
       ELSE LET newCategories ==
                    [categories EXCEPT ![i] = ApplyCategoryKwargs(categories[i], kwargs)]
            IN  /\ categories' = newCategories
                /\ categoriesFile' = save_categories(newCategories)
                /\ UNCHANGED <<records, budget, today, recordsFile, budgetFile,
                               raised, lastCreatedId, history, result,
                               componentRecords, returned>>

delete_category_returns(category_id) == IndexOfCategory(categories, category_id) # 0

\* a delete that also removes the records filed under the category's name
delete_category_cascading(category_id) ==
    LET i == IndexOfCategory(categories, category_id) IN
    /\ raised = ""
    /\ IF i = 0
       THEN UNCHANGED vars
       ELSE LET newCategories == RemoveAt(categories, i)
                newRecords == SelectSeq(records,
                                LAMBDA r : r.category # categories[i].name)
            IN  /\ categories' = newCategories
                /\ categoriesFile' = save_categories(newCategories)
                /\ records' = newRecords
                /\ recordsFile' = save_records(newRecords)
                /\ UNCHANGED <<budget, today, budgetFile,
                               raised, lastCreatedId, history, result,
                               componentRecords, returned>>

delete_category(category_id) ==
    LET i == IndexOfCategory(categories, category_id) IN
    /\ raised = ""
    /\ IF i = 0
       THEN UNCHANGED vars
       ELSE LET newCategories == RemoveAt(categories, i)
            IN  /\ categories' = newCategories
                /\ categoriesFile' = save_categories(newCategories)
                /\ UNCHANGED <<records, budget, today, recordsFile, budgetFile,
                               raised, lastCreatedId, history, result,
                               componentRecords, returned>>

CategoryKwargsInputs ==
    {<<TextItem("name", n)>> : n \in RenamedTo} \cup {<<NumItem("bogus", 1)>>}

AddCategory == \E name \in CategoryNames : add_category(name, "", "expense")

EditCategory == \E category_id \in Ids, kwargs \in CategoryKwargsInputs :
                    edit_category(category_id, kwargs)

DeleteCategory == \E category_id \in Ids : delete_category(category_id)

(***************************************************************************)
(* Budget operations.                                                      *)
(***************************************************************************)
\* Budget.set_budget
budget_set_budget(b, amount) == [b EXCEPT !.monthly_goal = amount]

\* hasattr(budget, "month"): Budget declares monthly_goal and current_spending only
HasMonth(b) == "month" \in DOMAIN b

\* RecordController.set_budget: reading self.budget.month raises AttributeError
\* on a Budget without that attribute; Budget(monthly_goal=..., month=...)
\* raises TypeError, the dataclass taking no such argument
set_budget(amount) ==
    /\ raised = ""
    /\ IF ~HasMonth(budget)
       THEN /\ raised' = "AttributeError"
            /\ UNCHANGED <<budget, budgetFile>>
       ELSE IF budget.month # YearMonth(today)
       THEN /\ raised' = "TypeError"
            /\ UNCHANGED <<budget, budgetFile>>
       ELSE /\ budget' = budget_set_budget(budget, amount)
            /\ budgetFile' = save_budget(budget')
            /\ UNCHANGED raised
    /\ UNCHANGED <<records, categories, today, recordsFile, categoriesFile,
                   lastCreatedId, history, result, componentRecords, returned>>

SetBudget == \E amount \in GoalInputs : set_budget(amount)

RECURSIVE SumAmounts(_)
SumAmounts(rs) == IF rs = <<>> THEN 0 ELSE Head(rs).amount + SumAmounts(Tail(rs))

\* The list expenses_this_month of get_budget_status_detail
ExpensesThisMonth ==
    SelectSeq(records, LAMBDA r : /\ r.r_type = "expense"
                                  /\ r.record_date.year = today.year
                                  /\ r.record_date.month = today.month)

\* <= where the tiers compare with <
RatioAtMost(spent, limit, num) == 10 * spent <= num * limit

\* ratio < num / 10 for ratio = spent / limit and limit > 0, in integers
RatioBelow(spent, limit, num) == 10 * spent < num * limit

\* The level get_budget_status_detail returns
get_budget_status_detail ==
    LET limit == budget.monthly_goal
        spent == SumAmounts(ExpensesThisMonth)
    IN  IF limit = 0 \/ limit <= 0 THEN "no_budget"
        ELSE IF RatioBelow(spent, limit, 5) THEN "normal"
        ELSE IF RatioBelow(spent, limit, 8) THEN "tight"
        ELSE IF RatioBelow(spent, limit, 10) THEN "warning"
        ELSE "over"

(***************************************************************************)
(* Statistics over a list of records.  A dict is a function on its keys,   *)
(* the empty dict the function <<>>; a month key "YYYY-MM" is <<Y, M>>.    *)
(***************************************************************************)
\* sum(r.amount for r in rs if r.r_type == kind)
SumOfKind(rs, kind) == SumAmounts(SelectSeq(rs, LAMBDA r : r.r_type = kind))

\* totals with the balance the sum of the two
calculate_totals_adding(rs) ==
    LET income == SumOfKind(rs, "income")
        expense == SumOfKind(rs, "expense")
    IN  [income |-> income, expense |-> expense, balance |-> income + expense]

calculate_totals(rs) ==
    LET income == SumOfKind(rs, "income")
        expense == SumOfKind(rs, "expense")
    IN  [income |-> income, expense |-> expense, balance |-> income - expense]

\* d[key] = value on a dict
SetItem(d, key, value) ==
    [k \in DOMAIN d \cup {key} |-> IF k = key THEN value ELSE d[k]]

\* The loop of generate_category_report on the defaultdict totals
RECURSIVE CategoryLoop(_, _)
CategoryLoop(totals, rs) ==
    IF rs = <<>> THEN totals
    ELSE LET r == Head(rs)
             sign == IF r.r_type = "income" THEN 1 ELSE -1
             before == IF r.category \in DOMAIN totals THEN totals[r.category] ELSE 0
         IN  CategoryLoop(SetItem(totals, r.category, before + sign * r.amount),
                          Tail(rs))

\* the report adding every amount
RECURSIVE CategoryLoopUnsigned(_, _)
CategoryLoopUnsigned(totals, rs) ==
    IF rs = <<>> THEN totals
    ELSE LET r == Head(rs)
             before == IF r.category \in DOMAIN totals THEN totals[r.category] ELSE 0
         IN  CategoryLoopUnsigned(SetItem(totals, r.category, before + r.amount),
                                  Tail(rs))

generate_category_report_unsigned(rs) == CategoryLoopUnsigned(<<>>, rs)

generate_category_report(rs) == CategoryLoop(<<>>, rs)

\* The loop of get_trend_analysis on the dict result
RECURSIVE TrendLoop(_, _)
TrendLoop(months, rs) ==
    IF rs = <<>> THEN months
    ELSE LET r == Head(rs)
             month_key == YearMonth(r.record_date)
             bucket == IF month_key \in DOMAIN months THEN months[month_key]
                       ELSE [income |-> 0, expense |-> 0, balance |-> 0]
             added == IF r.r_type = "income"
                      THEN [bucket EXCEPT !.income = bucket.income + r.amount]
                      ELSE [bucket EXCEPT !.expense = bucket.expense + r.amount]
             balanced == [added EXCEPT !.balance = added.income - added.expense]
         IN  TrendLoop(SetItem(months, month_key, balanced), Tail(rs))

\* the trend with the balance of a bucket set when the first record of the
\* month is folded in, and not after
RECURSIVE TrendLoopFirstOnly(_, _)
TrendLoopFirstOnly(months, rs) ==
    IF rs = <<>> THEN months
    ELSE LET r == Head(rs)
             month_key == YearMonth(r.record_date)
             isNew == month_key \notin DOMAIN months
             bucket == IF isNew THEN [income |-> 0, expense |-> 0, balance |-> 0]
                       ELSE months[month_key]
             added == IF r.r_type = "income"
                      THEN [bucket EXCEPT !.income = bucket.income + r.amount]
                      ELSE [bucket EXCEPT !.expense = bucket.expense + r.amount]
             balanced == IF isNew
                         THEN [added EXCEPT !.balance = added.income - added.expense]
                         ELSE added
         IN  TrendLoopFirstOnly(SetItem(months, month_key, balanced), Tail(rs))

get_trend_analysis_first_only(rs) == TrendLoopFirstOnly(<<>>, rs)

get_trend_analysis(rs) == TrendLoop(<<>>, rs)

\* The calls of the StatisticsController, on the list object its Statistics
\* refers to
StatisticsCall(op, value) ==
    /\ raised = ""
    /\ result' = [op |-> op, value |-> value]
    /\ UNCHANGED <<records, categories, budget, today, recordsFile,
                   categoriesFile, budgetFile, raised, lastCreatedId, history,
                   componentRecords, returned>>

get_summary == StatisticsCall("calculate_totals", calculate_totals(ItemsOf(componentRecords)))

get_category_stats ==
    StatisticsCall("generate_category_report",
                   generate_category_report(ItemsOf(componentRecords)))

get_time_based_stats ==
    StatisticsCall("get_trend_analysis",
                   get_trend_analysis(ItemsOf(componentRecords)))

(***************************************************************************)
(* The advisor.  Of the text it returns the model keeps the line of the    *)
(* concentration rule: "warning" for the 50% line, "note" for the 30%      *)
(* line, "none" for the line of a balanced spending or for no line at all, *)
(* and the category the line names.                                        *)
(***************************************************************************)
ExpensesOf(rs) == SelectSeq(rs, LAMBDA r : r.r_type = "expense")

\* Counter(r.category for r in expenses if r.category)[c]: the number of
\* the expenses of the category
CategoryCount(expenses, c) == Len(SelectSeq(expenses, LAMBDA r : r.category = c))

\* most_common(3)[0]: the category counted most often and its count, the
\* one met first among those counted equally often; <<>> on an empty counter
most_common(expenses) ==
    LET named == SelectSeq(expenses, LAMBDA r : r.category # "")
        top == SetMax({CategoryCount(named, named[i].category) : i \in 1..Len(named)})
        first == CHOOSE i \in 1..Len(named) :
                    /\ CategoryCount(named, named[i].category) = top
                    /\ \A j \in 1..(i - 1) :
                          CategoryCount(named, named[j].category) # top
    IN  IF named = <<>> THEN <<>> ELSE <<named[first].category, top>>

NoConcentration == [top |-> <<>>, concentration |-> "none"]

\* top_ratio = top_amount / total_expense if total_expense > 0 else 0.0,
\* compared with 0.5 and with 0.3
generate_suggestions(rs) ==
    LET expenses == ExpensesOf(rs)
        total_expense == SumAmounts(expenses)
        top_categories == most_common(expenses)
    IN  IF rs = <<>> \/ expenses = <<>> \/ top_categories = <<>>
        THEN NoConcentration
        ELSE LET top_name == top_categories[1]
                 top_amount == top_categories[2]
             IN  IF total_expense > 0 /\ 2 * top_amount >= total_expense
                 THEN [top |-> <<top_name>>, concentration |-> "warning"]
                 ELSE IF total_expense > 0 /\ 10 * top_amount >= 3 * total_expense
                 THEN [top |-> <<top_name>>, concentration |-> "note"]
                 ELSE NoConcentration

\* get_ai_analysis of the user interface, on the list of the record controller
get_ai_analysis ==
    StatisticsCall("generate_suggestions", generate_suggestions(records))

(***************************************************************************)
(* The search engine.  Where strings are compared without their case, a    *)
(* string is the sequence of its character codes: "A" is <<65>>, "ab" is   *)
(* <<97, 98>>, "" is <<>>.  An Optional argument is <<>> for None and      *)
(* <<v>> for the value v.                                                  *)
(***************************************************************************)
\* str.lower() that leaves the string as it is
LowerUnchanged(str) == str

\* str.lower(), on ASCII
Lower(str) ==
    [i \in 1..Len(str) |-> IF str[i] \in 65..90 THEN str[i] + 32 ELSE str[i]]

\* a < b on dates
DateLT(a, b) ==
    \/ a.year < b.year
    \/ a.year = b.year /\ a.month < b.month
    \/ a.year = b.year /\ a.month = b.month /\ a.day < b.day

\* a <= b on dates
DateLE(a, b) ==
    \/ a.year < b.year
    \/ a.year = b.year /\ a.month < b.month
    \/ a.year = b.year /\ a.month = b.month /\ a.day <= b.day

\* The truth value of an Optional[str]: None and "" are false
TruthyStr(opt) == opt # <<>> /\ opt[1] # <<>>

\* The truth value of an Optional[date]: only None is false
TruthyDate(opt) == opt # <<>>

\* The list advanced_search returns
advanced_search_returns(rs, store, category, start, end) ==
    LET byStore == IF TruthyStr(store)
                   THEN SelectSeq(rs, LAMBDA r : Lower(r.store) = Lower(store[1]))
                   ELSE rs
        byCategory == IF TruthyStr(category)
                      THEN SelectSeq(byStore,
                                LAMBDA r : Lower(r.category) = Lower(category[1]))
                      ELSE byStore
    IN  IF TruthyDate(start) /\ TruthyDate(end)
        THEN SelectSeq(byCategory, LAMBDA r : /\ DateLE(start[1], r.record_date)
                                              /\ DateLE(r.record_date, end[1]))
        ELSE byCategory

\* A search of the engine: the description of the filters is appended to
\* the history, and the list of the matches returned
SearchCall(op, value, entry) ==
    /\ raised = ""
    /\ history' = Append(history, entry)
    /\ result' = [op |-> op, value |-> value]
    /\ UNCHANGED <<records, categories, budget, today, recordsFile,
                   categoriesFile, budgetFile, raised, lastCreatedId,
                   componentRecords, returned>>

\* The list search_by_store returns
search_by_store_returns(rs, store) ==
    SelectSeq(rs, LAMBDA r : Lower(r.store) = Lower(store))

\* a search that records itself only when it has found something
search_by_store_recording_matches(store) ==
    LET found == search_by_store_returns(ItemsOf(componentRecords), store) IN
    /\ raised = ""
    /\ history' = IF found = <<>> THEN history
                  ELSE Append(history, <<"store", store>>)
    /\ result' = [op |-> "search_by_store", value |-> found]
    /\ UNCHANGED <<records, categories, budget, today, recordsFile,
                   categoriesFile, budgetFile, raised, lastCreatedId,
                   componentRecords, returned>>

search_by_store(store) ==
    SearchCall("search_by_store",
               search_by_store_returns(ItemsOf(componentRecords), store),
               <<"store", store>>)

search_by_category(category) ==
    SearchCall("search_by_category",
               SelectSeq(ItemsOf(componentRecords),
                         LAMBDA r : Lower(r.category) = Lower(category)),
               <<"category", category>>)

search_by_date_range(start, end) ==
    SearchCall("search_by_date_range",
               SelectSeq(ItemsOf(componentRecords),
                         LAMBDA r : /\ DateLE(start, r.record_date)
                                    /\ DateLE(r.record_date, end)),
               <<"date", FormatDate(start), FormatDate(end)>>)

\* "-", which stands for a filter that is None or empty in a history entry
Dash == <<45>>

\* The f-string advanced_search appends to the history, field by field
HistoryEntry(store, category, start, end) ==
    <<"advanced",
      IF TruthyStr(store) THEN store[1] ELSE Dash,
      IF TruthyStr(category) THEN category[1] ELSE Dash,
      IF TruthyDate(start) THEN FormatDate(start[1]) ELSE Dash,
      IF TruthyDate(end) THEN FormatDate(end[1]) ELSE Dash>>

\* SearchEngine.advanced_search on the list object self.records refers to,
\* as SearchController.execute_search calls it
advanced_search(store, category, start, end) ==
    /\ raised = ""
    /\ history' = Append(history, HistoryEntry(store, category, start, end))
    /\ result' = [op |-> "advanced_search",
                  value |-> advanced_search_returns(ItemsOf(componentRecords),
                                                    store, category, start, end)]
    /\ UNCHANGED <<records, categories, budget, today, recordsFile,
                   categoriesFile, budgetFile, raised, lastCreatedId,
                   componentRecords, returned>>

(***************************************************************************)
(* The accessors that hand a list to their caller, and what the caller     *)
(* does with the list object it was handed.                                *)
(***************************************************************************)
\* an accessor that returns self.records itself
get_records_returns_records == RecordsList

\* What get_records returns: list(self.records)
get_records_returns == list_copy(RecordsList)

\* an accessor that returns self.history itself
get_search_history_returns_history == HistoryList

\* What get_search_history returns: list(self.history)
get_search_history_returns == list_copy(HistoryList)

\* The caller now holds the list object l
Hand(l) ==
    /\ raised = ""
    /\ returned' = l
    /\ UNCHANGED <<records, categories, budget, today, recordsFile,
                   categoriesFile, budgetFile, raised, lastCreatedId, history,
                   result, componentRecords>>

get_records == Hand(get_records_returns)

get_search_history == Hand(get_search_history_returns)

\* The list object that the caller holds gets these items
WriteReturned(items) ==
    /\ raised = ""
    /\ CASE returned.ref = "own" ->
                /\ returned' = [returned EXCEPT !.items = items]
                /\ UNCHANGED <<records, history>>
         [] returned.ref = "records" ->
                /\ records' = items
                /\ UNCHANGED <<returned, history>>
         [] returned.ref = "history" ->
                /\ history' = items
                /\ UNCHANGED <<returned, records>>
    /\ UNCHANGED <<categories, budget, today, recordsFile, categoriesFile,
                   budgetFile, raised, lastCreatedId, result, componentRecords>>

Reverse(s) == [i \in 1..Len(s) |-> s[Len(s) + 1 - i]]

\* lst.append(x), lst.pop() and lst.reverse() on the list the caller holds
caller_append(x) ==
    /\ returned.ref # "none"
    /\ WriteReturned(Append(ItemsOf(returned), x))

caller_pop ==
    /\ returned.ref # "none"
    /\ ItemsOf(returned) # <<>>
    /\ WriteReturned(SubSeq(ItemsOf(returned), 1, Len(ItemsOf(returned)) - 1))

caller_reverse ==
    /\ returned.ref # "none"
    /\ WriteReturned(Reverse(ItemsOf(returned)))

(***************************************************************************)
(* A new session: RecordController(storage, budget) over the same files.   *)
(***************************************************************************)
\* RecordController(storage, injected), with the new SearchEngine of the
\* user interface
RestartWith(injected) ==
    /\ records' = load_records(recordsFile)
    /\ categories' = load_categories(categoriesFile)
    /\ budget' = InitialBudget(injected, budgetFile)
    /\ raised' = ""
    /\ lastCreatedId' = 0
    /\ history' = <<>>
    /\ result' = NoResult
    /\ componentRecords' = Statistics_init(RecordsList)
    /\ returned' = NoList
    /\ UNCHANGED <<today, recordsFile, categoriesFile, budgetFile>>

Restart == \E injected \in InjectedBudgets : RestartWith(injected)

(***************************************************************************)
(* Spec: the record and budget operations of one session.                  *)
(***************************************************************************)
Next ==
    \/ CreateRecord
    \/ UpdateRecord
    \/ DeleteRecord
    \/ SetBudget

Spec == Init /\ [][Next]_vars

(***************************************************************************)
(* SpecStore: the record and the category operations of one session, over  *)
(* a shorter record list.                                                  *)
(***************************************************************************)
CreateStoreRecord == CreateWithin(MaxStoreRecords)

NextStore ==
    \/ CreateStoreRecord
    \/ UpdateRecord
    \/ DeleteRecord
    \/ AddCategory
    \/ EditCategory
    \/ DeleteCategory

SpecStore == Init /\ [][NextStore]_vars

(***************************************************************************)
(* SpecRestart: sessions one after the other over the same data directory. *)
(***************************************************************************)
NextRestart ==
    \/ CreateRecord
    \/ UpdateRecord
    \/ DeleteRecord
    \/ SetBudget
    \/ Restart

SpecRestart == Init /\ [][NextRestart]_vars

(***************************************************************************)
(* SpecStatistics: the statistics calls of a session that starts over a    *)
(* records.json holding any list of at most MaxStatRecords records.        *)
(***************************************************************************)
StatAmounts == Amounts \cup {0}
StatCategories == {"food", "rent"}
StatDates == Dates

StatRecordLists ==
    UNION {{[i \in 1..n |-> Record(i, f[i][1], f[i][2], f[i][3], "", f[i][4], "")] :
                f \in [1..n -> StatAmounts \X Kinds \X StatCategories \X StatDates]} :
           n \in 0..MaxStatRecords}

\* A session that starts over a records.json holding the list rs and no
\* other file
StartOver(rs) ==
    /\ records = rs
    /\ recordsFile = IF rs = <<>> THEN NoFile ELSE save_records(rs)
    /\ categories = <<>>
    /\ budget = InitialBudget(<<>>, NoBudgetFile)
    /\ today = StartDay
    /\ categoriesFile = NoFile
    /\ budgetFile = NoBudgetFile
    /\ raised = ""
    /\ lastCreatedId = 0
    /\ history = <<>>
    /\ result = NoResult
    /\ componentRecords = Statistics_init(RecordsList)
    /\ returned = NoList

InitStatistics == \E rs \in StatRecordLists : StartOver(rs)

NextStatistics ==
    \/ get_summary
    \/ get_category_stats
    \/ get_time_based_stats
    \/ get_ai_analysis

SpecStatistics == InitStatistics /\ [][NextStatistics]_vars

(***************************************************************************)
(* SpecSearch: the searches of a session that starts over a records.json   *)
(* holding any list of at most MaxSearchRecords records.                   *)
(***************************************************************************)
SearchStores == {<<>>, <<65>>, <<97, 98>>}     \* "", "A", "ab"
SearchCategories == {<<70>>, <<103>>}    \* "F", "g"
SearchDates == Dates

SearchRecordLists ==
    UNION {{[i \in 1..n |-> Record(i, 5, "expense", f[i][2], "", f[i][3], f[i][1])] :
                f \in [1..n -> SearchStores \X SearchCategories \X SearchDates]} :
           n \in 0..MaxSearchRecords}

\* The dates of SearchDates: the earlier and the later one
Early == MkDate(2025, 11, 30)
Late == MkDate(2025, 12, 2)

\* The filters store, category, start, end of a search
SearchInputs ==
    {<< <<>>, <<>>, <<>>, <<>> >>,
     << << <<>> >>, <<>>, <<>>, <<>> >>,                  \* store=""
     << << <<97>> >>, <<>>, <<>>, <<>> >>,                \* store="a"
     << << <<65, 66>> >>, <<>>, <<>>, <<>> >>,            \* store="AB"
     << <<>>, << <<102>> >>, <<>>, <<>> >>,               \* category="f"
     << << <<97>> >>, << <<102>> >>, <<>>, <<>> >>,
     << <<>>, <<>>, <<Early>>, <<Early>> >>,
     << <<>>, <<>>, <<Late>>, <<Late>> >>,
     << <<>>, <<>>, <<Early>>, <<Late>> >>,
     << <<>>, <<>>, <<Late>>, <<>> >>,
     << <<>>, <<>>, <<>>, <<Early>> >>,
     << << <<97>> >>, <<>>, <<Late>>, <<>> >>,
     << << <<97>> >>, << <<102>> >>, <<Late>>, <<Late>> >>,
     << << <<>> >>, << <<>> >>, <<>>, <<Early>> >>}

InitSearch == \E rs \in SearchRecordLists : StartOver(rs)

AdvancedSearch ==
    /\ Len(history) < MaxHistory
    /\ \E in \in SearchInputs : advanced_search(in[1], in[2], in[3], in[4])

NextSearch == AdvancedSearch

SpecSearch == InitSearch /\ [][NextSearch]_vars

(***************************************************************************)
(* SpecExpenses: from an empty store, creates and deletes of expense       *)
(* records dated in the wall-clock month, which stays fixed.               *)
(***************************************************************************)
CurrentMonthDates ==
    {d \in Dates \cup {StartDay} : YearMonth(d) = YearMonth(StartDay)}

CreateCurrentExpense ==
    /\ Len(records) < MaxExpenseRecords
    /\ _get_next_record_id <= MaxExpenseRecords
    /\ \E amount \in Amounts, category \in CategoryNames,
          record_date \in CurrentMonthDates, note \in Notes, store \in Stores :
            /\ budget.current_spending + amount <= MaxSpending
            /\ create_record(amount, "expense", category, record_date, note, store)

NextExpenses ==
    \/ CreateCurrentExpense
    \/ DeleteRecord

SpecExpenses == Init /\ [][NextExpenses]_vars

(***************************************************************************)
(* SpecClock: a session during which the wall-clock month advances.        *)
(***************************************************************************)
MonthIndex(d) == 12 * d.year + d.month

NextMonth(d) ==
    IF d.month = 12 THEN MkDate(d.year + 1, 1, d.day)
    ELSE MkDate(d.year, d.month + 1, d.day)

AdvanceClock ==
    /\ MonthIndex(today) < MonthIndex(StartDay) + MaxMonthsAhead
    /\ today' = NextMonth(today)
    /\ UNCHANGED <<records, categories, budget, recordsFile, categoriesFile,
                   budgetFile, raised, lastCreatedId, history, result,
                   componentRecords, returned>>

NextClock ==
    \/ CreateRecord
    \/ DeleteRecord
    \/ SetBudget
    \/ AdvanceClock

SpecClock == Init /\ [][NextClock]_vars

(***************************************************************************)
(* Properties.                                                             *)
(***************************************************************************)
IsCurrentMonthExpense(r) ==
    /\ r.r_type = "expense"
    /\ r.record_date.year = today.year
    /\ r.record_date.month = today.month

RECURSIVE SumOver(_, _)
\* the sum of the amounts of the records of rs at the indices of the set idx
SumOver(rs, idx) ==
    IF idx = {} THEN 0
    ELSE LET i == CHOOSE j \in idx : TRUE
         IN  rs[i].amount + SumOver(rs, idx \ {i})

\* the sum of the amounts of the stored expense records dated in the wall-clock month
CurrentMonthExpenseTotal ==
    SumOver(records, {i \in 1..Len(records) : IsCurrentMonthExpense(records[i])})

HasRecord(id) == \E i \in 1..Len(records) : records[i].record_id = id

HasCategory(id) == \E i \in 1..Len(categories) : categories[i].category_id = id

\* C1: after any sequence of creates and deletes of expense records dated in
\* the (fixed) current month, from an empty store with current_spending = 0,
\* current_spending is the sum of the amounts of the stored current-month
\* expense records, and it is not negative.
SpendingIsSumOfStoredExpenses ==
    /\ budget.current_spending = CurrentMonthExpenseTotal
    /\ budget.current_spending >= 0

\* C1 witness: two expenses are stored after the record with id 1 was deleted
TwoExpensesAfterDelete ==
    /\ Len(records) = 2
    /\ ~HasRecord(1)
    /\ budget.current_spending = 8

\* C2: create adds the amount to current_spending exactly when the record is
\* an expense dated in the wall-clock year-month; otherwise it leaves
\* current_spending unchanged; monthly_goal is unchanged either way.
CreateCountsCurrentMonthExpenseOnly ==
    [][Len(records') = Len(records) + 1 =>
        LET r == records'[Len(records')] IN
        /\ budget'.monthly_goal = budget.monthly_goal
        /\ budget'.current_spending =
              IF r.r_type = "expense"
                 /\ <<r.record_date.year, r.record_date.month>>
                        = <<today.year, today.month>>
              THEN budget.current_spending + r.amount
              ELSE budget.current_spending]_vars

\* C2 witness: an expense of another month and an expense of this month are
\* stored, and only the second was counted
OnlyCurrentMonthExpenseCounted ==
    /\ Len(records) = 2
    /\ records[1].r_type = "expense" /\ ~IsCurrentMonthExpense(records[1])
    /\ IsCurrentMonthExpense(records[2])
    /\ records[1].amount = 5 /\ records[2].amount = 3
    /\ budget.current_spending = 3
    /\ recordsFile = save_records(records)

\* C3: a successful delete removes exactly the record with the id and returns
\* true; for an expense record of any month it sets current_spending to
\* max(0, current_spending - amount), for an income record it leaves the
\* budget unchanged.
DeleteRemovesRecordAndFloorsSpending ==
    [][\A id \in Ids : (HasRecord(id) /\ delete_record(id)) =>
        LET i == CHOOSE j \in 1..Len(records) :
                    /\ records[j].record_id = id
                    /\ \A k \in 1..(j - 1) : records[k].record_id # id
            r == records[i]
            left == budget.current_spending - r.amount
        IN  /\ delete_returns(id)
            /\ Len(records') = Len(records) - 1
            /\ \A k \in 1..Len(records') :
                    records'[k] = IF k < i THEN records[k] ELSE records[k + 1]
            /\ budget'.monthly_goal = budget.monthly_goal
            /\ budget'.current_spending =
                  IF r.r_type = "expense"
                  THEN (IF left < 0 THEN 0 ELSE left)
                  ELSE budget.current_spending]_vars

\* C3 witness: an expense of 3 was deleted from a spending of 5
SpendingAfterExpenseDelete ==
    /\ budget.current_spending = 2
    /\ budgetFile = save_budget(budget)
    /\ records = <<>>

\* a kwargs with a record_date string that does not parse
HasUnparsableDate(kwargs) ==
    \E k \in 1..Len(kwargs) :
        /\ kwargs[k].key = "record_date"
        /\ kwargs[k].is_str
        /\ ~ParsesAsDate(kwargs[k].datestr)

\* C4: update with a record_date string that is no calendar date returns
\* false and leaves every field of the record unchanged, also the fields
\* supplied in the same call, in whatever order.
UpdateWithBadDateChangesNothing ==
    [][\A id \in Ids, kwargs \in KwargsInputs :
        (HasRecord(id) /\ HasUnparsableDate(kwargs) /\ update_record(id, kwargs))
            => (~update_returns(id, kwargs) /\ records' = records)]_vars

\* C5: when the budget is of an earlier month than the wall-clock month,
\* set_goal(amount) replaces it with monthly_goal = amount and
\* current_spending = 0.  Budget stores no period: in SpecClock the budget is
\* the one constructed in the month of StartDay.
SetGoalRollsOverToNewMonth ==
    [][\A amount \in GoalInputs :
        (YearMonth(today) # YearMonth(StartDay) /\ set_budget(amount))
            => /\ raised' = ""
               /\ budget'.monthly_goal = amount
               /\ budget'.current_spending = 0]_vars

\* C6: when the budget is of the wall-clock month, set_goal(amount) completes
\* without error, sets monthly_goal to amount, leaves current_spending
\* unchanged, and the saved budget carries monthly_goal = amount.  In Spec
\* the wall-clock month is fixed and the budget was constructed in it.
SetGoalInSameMonthSetsGoalOnly ==
    [][\A amount \in GoalInputs :
        (YearMonth(today) = YearMonth(StartDay) /\ set_budget(amount))
            => /\ raised' = ""
               /\ budget'.monthly_goal = amount
               /\ budget'.current_spending = budget.current_spending
               /\ budgetFile'.exists
               /\ budgetFile'.data.monthly_goal = amount]_vars

\* the tier of spent / goal
TierOf(spent, goal) ==
    IF goal <= 0 THEN "no_budget"
    ELSE IF 2 * spent < goal THEN "normal"
    ELSE IF 5 * spent < 4 * goal THEN "tight"
    ELSE IF spent < goal THEN "warning"
    ELSE "over"

\* C7: the level status() returns is the tier of
\* current_spending / monthly_goal, the incrementally tracked counter.
StatusUsesTrackedSpending ==
    get_budget_status_detail = TierOf(budget.current_spending, budget.monthly_goal)

\* C8: status() returns no_budget when monthly_goal <= 0; otherwise normal
\* below 0.5, tight from 0.5 to below 0.8, warning from 0.8 to below 1.0,
\* over from 1.0 on, for the ratio of the spent figure to monthly_goal.
StatusTiers ==
    LET goal == budget.monthly_goal
        spent == CurrentMonthExpenseTotal
        level == get_budget_status_detail
    IN  /\ goal <= 0 => level = "no_budget"
        /\ (goal > 0 /\ 2 * spent < goal) => level = "normal"
        /\ (goal > 0 /\ 2 * spent >= goal /\ 5 * spent < 4 * goal) => level = "tight"
        /\ (goal > 0 /\ 5 * spent >= 4 * goal /\ spent < goal) => level = "warning"
        /\ (goal > 0 /\ spent >= goal) => level = "over"
        /\ (goal > 0 /\ 2 * spent = goal) => level = "tight"
        /\ (goal > 0 /\ 5 * spent = 4 * goal) => level = "warning"
        /\ (goal > 0 /\ spent = goal) => level = "over"

\* C8 witness: a ratio of exactly 0.8
RatioExactlyFourFifths ==
    /\ budget.monthly_goal = 10
    /\ CurrentMonthExpenseTotal = 8
    /\ get_budget_status_detail = "warning"

\* an update_record call that found its record: the list keeps its length, and
\* the list or its file changes
UpdateStep ==
    /\ Len(records') = Len(records)
    /\ records' # records \/ recordsFile' # recordsFile

\* C9: an update of a stored record leaves current_spending and monthly_goal
\* unchanged.
UpdateLeavesBudgetUnchanged ==
    [][UpdateStep =>
        /\ budget'.current_spending = budget.current_spending
        /\ budget'.monthly_goal = budget.monthly_goal]_vars

\* C9 witness: a current-month expense counted as 5 was updated to 3 and saved
CountedExpenseUpdated ==
    /\ Len(records) = 1
    /\ IsCurrentMonthExpense(records[1])
    /\ records[1].amount = 3
    /\ budget.current_spending = 5
    /\ recordsFile = save_records(records)

\* C10: on an id that no stored item has, get returns None, update and
\* delete return false, edit_category and delete_category return false,
\* nothing is raised, and no such call changes the state.
UnknownIdChangesNothing ==
    /\ [](\A id \in Ids :
            /\ raised = ""
            /\ ~HasRecord(id) =>
                  /\ get_record(id) = <<>>
                  /\ ~delete_returns(id)
                  /\ \A kwargs \in KwargsInputs : ~update_returns(id, kwargs)
            /\ ~HasCategory(id) =>
                  /\ ~edit_category_returns(id)
                  /\ ~delete_category_returns(id))
    /\ [][\A id \in Ids :
            /\ ~HasRecord(id) =>
                  /\ ~delete_record(id)
                  /\ \A kwargs \in KwargsInputs : ~update_record(id, kwargs)
            /\ ~HasCategory(id) =>
                  /\ ~delete_category(id)
                  /\ \A kwargs \in CategoryKwargsInputs : ~edit_category(id, kwargs)]_vars

\* C10 witness: the only record and the only category were deleted, the
\* budget counting a spending
RecordAndCategoryDeleted ==
    /\ records = <<>> /\ recordsFile = save_records(<<>>)
    /\ categories = <<>> /\ categoriesFile = save_categories(<<>>)
    /\ budget.current_spending > 0

\* the largest record_id among the stored records, 0 when there is none
LargestStoredId ==
    IF records = <<>> THEN 0
    ELSE CHOOSE m \in {records[i].record_id : i \in 1..Len(records)} :
            \A i \in 1..Len(records) : records[i].record_id <= m

\* C11: create assigns the id (largest stored id) + 1, or 1 when the store is
\* empty, and get of that id right after the create returns a record with the
\* amount, kind, category, date, note and store that were passed to create.
CreateAssignsNextIdAndGetReturnsIt ==
    [][Len(records') = Len(records) + 1 =>
       \A amount \in Amounts, r_type \in Kinds, category \in CategoryNames,
         record_date \in Dates, note \in Notes, store \in Stores :
            create_record(amount, r_type, category, record_date, note, store) =>
                LET id == LargestStoredId + 1
                    i == IndexOfRecord(records', id)
                IN  /\ lastCreatedId' = id
                    /\ i # 0
                    /\ records'[i].record_id = id
                    /\ records'[i].amount = amount
                    /\ records'[i].r_type = r_type
                    /\ records'[i].category = category
                    /\ records'[i].record_date = record_date
                    /\ records'[i].note = note
                    /\ records'[i].store = store]_vars

\* C11 witness: an income record of 5 dated in the month before was created
\* with id 2 in a store that held the record with id 1
CreatedSecondRecord ==
    /\ Len(records) = 2
    /\ lastCreatedId = 2
    /\ records[1].record_id = 1
    /\ get_record(2) = <<Record(2, 5, "income", "food", "", MkDate(2025, 11, 30), "")>>

\* C12: in every state reached through create, update and delete, no two
\* stored records have the same id.
NoTwoRecordsShareAnId ==
    \A i, j \in 1..Len(records) :
        i # j => records[i].record_id # records[j].record_id

\* C13: each create returns an id strictly greater than the id the create
\* before it returned, hence than the id of every earlier create of the
\* session, whatever deletes come between them.
CreatedIdsIncrease ==
    [][Len(records') = Len(records) + 1 => lastCreatedId' > lastCreatedId]_vars

\* C12 witness: the record with id 2 is the only one left after a delete, and
\* a failed update changed it in memory
OneRecordLeftAndUpdated ==
    /\ Len(records) = 1
    /\ records[1].record_id = 2
    /\ lastCreatedId = 2
    /\ load_records(recordsFile) # records

\* C14: after each create, update and delete the record list in records.json
\* equals the list in memory, and after each step that changes the budget
\* the budget in budget.json equals the budget in memory.
PersistedEqualsMemory ==
    [][/\ load_records(recordsFile') = records'
       /\ budget' # budget => load_budget(budgetFile') = <<budget'>>]_vars

\* C15: a controller constructed over the same files has the record list of
\* the controller before it and, with no budget passed, the last saved
\* budget; without saved data it has no record and Budget(0); it does not
\* raise.
RestartLoadsWhatWasStored ==
    [][\A injected \in InjectedBudgets : RestartWith(injected) =>
            /\ records' = records
            /\ raised' = ""
            /\ injected = <<>> =>
                    budget' = IF budgetFile.exists
                              THEN [monthly_goal |-> budgetFile.data.monthly_goal,
                                    current_spending |-> budgetFile.data.current_spending]
                              ELSE [monthly_goal |-> 0, current_spending |-> 0]]_vars

\* the indices of the records of the kind
OfKind(kind) == {i \in 1..Len(records) : records[i].r_type = kind}

\* C16: totals returns income = the sum of the amounts of the income records,
\* expense = the sum of the amounts of the expense records, neither negative,
\* and balance = income - expense, on the empty list too.
TotalsAreSumsByKind ==
    result.op = "calculate_totals" =>
        /\ result.value.income = SumOver(records, OfKind("income"))
        /\ result.value.expense = SumOver(records, OfKind("expense"))
        /\ result.value.income >= 0
        /\ result.value.expense >= 0
        /\ result.value.balance = result.value.income - result.value.expense
        /\ records = <<>> => result.value = [income |-> 0, expense |-> 0, balance |-> 0]

\* C16 witness: totals of an income of 3 and an expense of 5
TotalsWithNegativeBalance ==
    /\ result.op = "calculate_totals"
    /\ result.value = [income |-> 3, expense |-> 5, balance |-> -2]

\* the indices of the records of the kind dated in the month
OfKindInMonth(kind, ym) ==
    {i \in OfKind(kind) : /\ records[i].record_date.year = ym[1]
                          /\ records[i].record_date.month = ym[2]}

\* C17: trend has one bucket for each year-month in which a record is dated;
\* the income and expense of a bucket are the sums of the amounts of the
\* income and expense records of the month, its balance their difference.
TrendBucketsAreMonthlySums ==
    result.op = "get_trend_analysis" =>
        /\ DOMAIN result.value =
              {<<records[i].record_date.year, records[i].record_date.month>> :
                    i \in 1..Len(records)}
        /\ \A ym \in DOMAIN result.value :
              /\ result.value[ym].income = SumOver(records, OfKindInMonth("income", ym))
              /\ result.value[ym].expense = SumOver(records, OfKindInMonth("expense", ym))
              /\ result.value[ym].balance =
                    result.value[ym].income - result.value[ym].expense

\* C17 witness: an expense of 5 then an income of 3 folded into one month
TwoRecordsInOneBucket ==
    /\ result.op = "get_trend_analysis"
    /\ Len(records) = 2
    /\ records[1].r_type = "expense"
    /\ result.value = (<<2025, 12>> :> [income |-> 3, expense |-> 5, balance |-> -2])

\* the indices of the records of the kind in the category
OfKindInCategory(kind, category) ==
    {i \in OfKind(kind) : records[i].category = category}

\* C18: category_report has one entry for each category name that occurs in
\* the list and no other; its value is the sum of the amounts of the income
\* records of the category minus the sum of those of its expense records.
CategoryReportIsSignedSum ==
    result.op = "generate_category_report" =>
        /\ DOMAIN result.value = {records[i].category : i \in 1..Len(records)}
        /\ \A c \in DOMAIN result.value :
              result.value[c] = SumOver(records, OfKindInCategory("income", c))
                                - SumOver(records, OfKindInCategory("expense", c))

\* C18 witness: a category with expenses only, and no entry for the other
ExpenseOnlyCategoryIsNegative ==
    /\ result.op = "generate_category_report"
    /\ Len(records) = 2
    /\ result.value = ("rent" :> -8)

\* a and b are the same character, or the same letter in its two cases
SameCharIgnoringCase(a, b) ==
    \/ a = b
    \/ a \in 65..90 /\ b = a + 32
    \/ b \in 65..90 /\ a = b + 32

\* the whole strings are equal, the case of the letters apart
EqualIgnoringCase(x, y) ==
    /\ Len(x) = Len(y)
    /\ \A i \in 1..Len(x) : SameCharIgnoringCase(x[i], y[i])

\* the filter is supplied: it is neither None nor the empty string, which
\* the prompt of the user interface passes when nothing was typed
SuppliedName(opt) == Len(opt) = 1 /\ Len(opt[1]) > 0

NamesMatch(r, store, category) ==
    /\ SuppliedName(store) => EqualIgnoringCase(r.store, store[1])
    /\ SuppliedName(category) => EqualIgnoringCase(r.category, category[1])

\* d is on or after start and on or before end
Within(d, start, end) ==
    /\ <<start.year, start.month>> = <<d.year, d.month>> => start.day <= d.day
    /\ <<end.year, end.month>> = <<d.year, d.month>> => d.day <= end.day
    /\ 12 * start.year + start.month <= 12 * d.year + d.month
    /\ 12 * d.year + d.month <= 12 * end.year + end.month

InList(r, list) == \E j \in 1..Len(list) : list[j] = r

\* C20: with start and end both supplied, search keeps exactly the records
\* dated from start to end, both days included, among those the other
\* filters keep; with one of the two alone it returns what it returns with
\* neither.
DateRangeNeedsBothBounds ==
    [][\A in \in SearchInputs : advanced_search(in[1], in[2], in[3], in[4]) =>
          LET named == SelectSeq(records, LAMBDA r : NamesMatch(r, in[1], in[2]))
          IN  IF in[3] # <<>> /\ in[4] # <<>>
              THEN \A i \in 1..Len(named) :
                      InList(named[i], result'.value)
                          <=> Within(named[i].record_date, in[3][1], in[4][1])
              ELSE result'.value = named]_vars

\* C20 witness: start alone, the later date, kept a record of the earlier date
StartAloneKeepsEarlierRecord ==
    /\ history = << <<"advanced", Dash, Dash, FormatDate(Late), Dash>> >>
    /\ Len(records) = 2
    /\ records[1].record_date = Early
    /\ result.value = records

NextMonths ==
    \/ CreateStoreRecord
    \/ UpdateRecord
    \/ DeleteRecord
    \/ SetBudget
    \/ AdvanceClock

SpecMonths == Init /\ [][NextMonths]_vars

\* C27: with amounts that are not negative and a spending that starts not
\* negative, current_spending is never negative, whatever create, update,
\* delete and set_budget calls were made and whether or not the wall-clock
\* month has changed.
SpendingIsNeverNegative == budget.current_spending >= 0

\* C27 witness: after the month changed the spending is 2, which only a
\* delete that subtracted another amount than the one create added leaves
SpendingLoweredAfterMonthChange ==
    /\ MonthIndex(today) > MonthIndex(StartDay)
    /\ records = <<>>
    /\ budget.current_spending = 2
    /\ budgetFile = save_budget(budget)

\* the keys of the keyword arguments
SuppliedKeys(kwargs) == {kwargs[k].key : k \in 1..Len(kwargs)}

CreateStep == Len(records') = Len(records) + 1

\* C26 as stated: delete_record of the id that create_record has just
\* returned leaves the list and current_spending as they were before the
\* create_record. It fails for an expense dated in another month than the
\* wall clock's: create_record does not count it, delete_record subtracts it.
CreateThenDeleteRestores ==
    [][CreateStep =>
        /\ records_after_delete(records', lastCreatedId') = records
        /\ budget_after_delete(records', budget', lastCreatedId').current_spending
              = budget.current_spending]_vars

\* C26: delete_record of the id that create_record has just returned
\* leaves the list as it was before the create_record, and current_spending
\* too unless the record is an expense dated in another month than the wall
\* clock's: current_spending is then the larger of 0 and what it was less
\* the amount.
CreateThenDeleteRestoresUnlessOtherMonth ==
    [][CreateStep =>
        LET created == records'[Len(records')]
            spending == budget_after_delete(records', budget',
                                            lastCreatedId').current_spending
        IN  /\ records_after_delete(records', lastCreatedId') = records
            /\ IF created.r_type = "expense" /\ ~IsCurrentMonthExpense(created)
               THEN spending = IF budget.current_spending > created.amount
                               THEN budget.current_spending - created.amount
                               ELSE 0
               ELSE spending = budget.current_spending]_vars

\* C26 witness: an expense of 5 of this month is stored and counted; the
\* second record, created last, is deleted again, and the spending is 2
LastCreatedDeletedAndSpendingLower ==
    /\ Len(records) = 1 /\ records[1].record_id = 1
    /\ IsCurrentMonthExpense(records[1]) /\ records[1].amount = 5
    /\ lastCreatedId = 2
    /\ budget.current_spending = 2
    /\ budgetFile = save_budget(budget)

\* the sum of d[k] over the keys
RECURSIVE SumValues(_, _)
SumValues(d, keys) ==
    IF keys = {} THEN 0
    ELSE LET k == CHOOSE x \in keys : TRUE
         IN  d[k] + SumValues(d, keys \ {k})

\* the sum of one field over the buckets of a trend
SumOfBuckets(trend, field) ==
    SumValues([k \in DOMAIN trend |-> trend[k][field]], DOMAIN trend)

CategoryAmount(expenses, c) ==
    SumAmounts(SelectSeq(expenses, LAMBDA r : r.category = c))

\* the share of the total expense that the category with the largest sum
\* of expense amounts has is at least num / den
TopShareAtLeast(rs, num, den) ==
    LET expenses == ExpensesOf(rs)
        top == SetMax({CategoryAmount(expenses, expenses[i].category) :
                          i \in 1..Len(expenses)})
    IN  den * top >= num * SumAmounts(expenses)

\* C23: the advisor applies its concentration rule to the share that the
\* category with the largest sum of expense amounts has of the total
\* expense: the warning from 50%, the milder note from 30% to below 50%,
\* neither below 30%.
ConcentrationFollowsExpenseShare ==
    (result.op = "generate_suggestions" /\ SumAmounts(ExpensesOf(records)) > 0) =>
        result.value.concentration =
            IF TopShareAtLeast(records, 1, 2) THEN "warning"
            ELSE IF TopShareAtLeast(records, 3, 10) THEN "note"
            ELSE "none"

\* The filters of the searches made between the calls of the store: none,
\* and the dates from the later one to itself
StoreSearchInputs ==
    {<< <<>>, <<>>, <<>>, <<>> >>, << <<>>, <<>>, <<Late>>, <<Late>> >>}

SearchTheStore ==
    /\ Len(history) < MaxHistory
    /\ \E in \in StoreSearchInputs : advanced_search(in[1], in[2], in[3], in[4])

\* The command line interface starts over no file
InitComponents == StartOver(<<>>)

\* Records of either kind dated in an earlier month than the wall clock's
CreateObserved ==
    /\ Len(records) < MaxStoreRecords
    /\ _get_next_record_id <= MaxStoreRecords
    /\ \E amount \in Amounts, r_type \in Kinds, category \in CategoryNames :
            create_record(amount, r_type, category, Early, "", "")

\* An amount, a kind or a date is updated
ObservedKwargs ==
    {<<NumItem("amount", a)>> : a \in Amounts}
    \cup {<<TextItem("r_type", t)>> : t \in Kinds}
    \cup {<<DateItem("record_date", Late)>>}

UpdateObserved == \E record_id \in Ids, kwargs \in ObservedKwargs :
                      update_record(record_id, kwargs)

\* The statistics and the search component of the command line interface,
\* constructed once over the list of the record controller, between the
\* calls that create, update and delete records
NextComponents ==
    \/ CreateObserved
    \/ UpdateObserved
    \/ DeleteRecord
    \/ get_summary
    \/ get_category_stats
    \/ get_time_based_stats
    \/ SearchTheStore

SpecComponents == InitComponents /\ [][NextComponents]_vars

\* C25: the statistics and the search component constructed over the list
\* of the record controller return, after whatever records were created,
\* updated and deleted since, what the same computation gives on the list
\* as it is now.
ComponentsSeeTheCurrentList ==
    [][/\ get_summary => result'.value = calculate_totals(records)
       /\ get_category_stats => result'.value = generate_category_report(records)
       /\ get_time_based_stats => result'.value = get_trend_analysis(records)
       /\ \A in \in StoreSearchInputs :
              advanced_search(in[1], in[2], in[3], in[4]) =>
                  result'.value = advanced_search_returns(records, in[1], in[2],
                                                          in[3], in[4])]_vars

\* C25 witness: the components were constructed over the empty list; the
\* search was used, a record was created and dated to the later day, and
\* the trend asked for then has the bucket of that record
TrendOfRecordCreatedLater ==
    /\ Len(records) = 1 /\ lastCreatedId = 1
    /\ records[1].r_type = "expense" /\ records[1].amount = 5
    /\ records[1].record_date = Late
    /\ history # <<>>
    /\ result.op = "get_trend_analysis"
    /\ DOMAIN result.value = {YearMonth(Late)}
    /\ result.value[YearMonth(Late)].expense = 5

\* Income records of an earlier month
CreateListed ==
    /\ Len(records) < MaxRecords
    /\ _get_next_record_id <= MaxRecords
    /\ \E amount \in Amounts :
            create_record(amount, "income", "food", Early, "", "")

\* a record that the caller makes up, with an id that no create assigns
CallerRecord == Record(0, 3, "income", "food", "", Early, "")

CallerAppendsRecord ==
    /\ Len(ItemsOf(returned)) <= MaxRecords
    /\ caller_append(CallerRecord)

\* Records are created and deleted, and a caller of get_records extends,
\* shortens and reorders the list it was handed
NextAccessor ==
    \/ CreateListed
    \/ DeleteRecord
    \/ get_records
    \/ CallerAppendsRecord
    \/ caller_pop
    \/ caller_reverse

SpecAccessor == InitComponents /\ [][NextAccessor]_vars

\* C30: when the caller of get_records extends, shortens or reorders the
\* list it was handed, the list of the store, the id the next create
\* assigns, the budget and the files stay as they are, so that a later
\* get_record, get_records, create_record or delete_record does what it
\* would have done.
ReturnedRecordsAreTheCallers ==
    [][(CallerAppendsRecord \/ caller_pop \/ caller_reverse) =>
          /\ UNCHANGED <<records, budget, recordsFile, budgetFile>>
          /\ _get_next_record_id' = _get_next_record_id
          /\ get_records_returns' = get_records_returns]_vars

\* C30 witness: the caller holds the two records of the store in the
\* other order, with a record of its own after them
CallerReorderedAndExtended ==
    /\ Len(records) = 2
    /\ records[1].record_id = 1 /\ records[2].record_id = 2
    /\ returned = [ref |-> "own",
                   items |-> <<records[2], records[1], CallerRecord>>]

\* The engine is over no record, or over one record of the store "A" and
\* the category "F"
HistoryRecordLists == {<<>>, <<Record(1, 5, "expense", <<70>>, "", Early, <<65>>)>>}

InitHistory == \E rs \in HistoryRecordLists : StartOver(rs)

\* "a" is the store of the record but for the case, "b" is no record's
SearchByStore ==
    /\ Len(history) < MaxEntries
    /\ \E store \in {<<97>>, <<98>>} : search_by_store(store)

SearchByCategory ==
    /\ Len(history) < MaxEntries
    /\ search_by_category(<<102>>)

SearchByDateRange ==
    /\ Len(history) < MaxEntries
    /\ \E start \in {Early, Late} : search_by_date_range(start, Late)

SearchByFilters ==
    /\ Len(history) < MaxEntries
    /\ \E store \in {<<>>, << <<98>> >>} : advanced_search(store, <<>>, <<>>, <<>>)

CallerAppendsEntry ==
    /\ Len(ItemsOf(returned)) <= MaxEntries
    /\ caller_append(<<"x">>)

\* The four searches of the engine, and a caller of get_search_history
\* that extends, shortens and reorders the list it was handed
NextHistory ==
    \/ SearchByStore
    \/ SearchByCategory
    \/ SearchByDateRange
    \/ SearchByFilters
    \/ get_search_history
    \/ CallerAppendsEntry
    \/ caller_pop
    \/ caller_reverse

SpecHistory == InitHistory /\ [][NextHistory]_vars

\* C21: every search, whatever its filters and whether or not a record
\* matches, appends one entry to the history and leaves the entries before
\* it as they were, in their order; nothing else changes the history, so
\* that after n searches it has n entries in the order of the searches.
EverySearchAppendsOneEntry ==
    [][IF SearchByStore \/ SearchByCategory \/ SearchByDateRange \/ SearchByFilters
       THEN /\ Len(history') = Len(history) + 1
            /\ SubSeq(history', 1, Len(history)) = history
       ELSE history' = history]_vars

\* C21 witness: a search by a store that no record has, then a search by
\* dates that returned the record
TwoSearchesInOrder ==
    /\ records # <<>>
    /\ history = << <<"store", <<98>>>>, <<"date", FormatDate(Early), FormatDate(Late)>> >>
    /\ result = [op |-> "search_by_date_range", value |-> records]

\* C22: when the caller of get_search_history appends to, removes from or
\* reorders the list it was handed, the history of the engine, and so
\* what a later get_search_history returns, stays as it is.
ReturnedHistoryIsACopy ==
    [][(CallerAppendsEntry \/ caller_pop \/ caller_reverse) =>
          /\ history' = history
          /\ get_search_history_returns' = get_search_history_returns]_vars

\* C22 witness: one search was made, and the caller holds the list with
\* the entry of its own before the entry of the search
CallerExtendedAndReorderedHistory ==
    /\ Len(history) = 1
    /\ returned = [ref |-> "own", items |-> << <<"x">>, history[1] >>]
====
